---- MODULE Spec2Model ----
(***************************************************************************)
(* Model of the MedicalAssistant_AI chat front end: the SSE stream reader  *)
(* analyzeCaseStream (services/api.ts), the chat page App.tsx that folds   *)
(* its events into the conversation, and the configuration-form page       *)
(* Index.tsx that reads the same stream inline.                            *)
(*                                                                         *)
(* Text is modelled by TLA+ strings, one character per UTF-16 code unit.   *)
(* The byte stream of the response body is a string too, one character per *)
(* byte: LeadByte and ContByte stand for the two bytes 0xC3 0xA9 of a      *)
(* two-byte UTF-8 sequence, every other character for the ASCII byte of    *)
(* the same value.                                                         *)
(***************************************************************************)
EXTENDS Integers, Sequences, FiniteSets, TLC

(***************************************************************************)
(* JavaScript string primitives                                            *)
(***************************************************************************)
\* s[i] with a 0-based index; "" stands for undefined past the end
CharAt(s, i) == IF i >= 0 /\ i < Len(s) THEN SubSeq(s, i + 1, i + 1) ELSE ""

\* s.slice(from) with from >= 0
SliceFrom(s, from) == IF from >= Len(s) THEN "" ELSE SubSeq(s, from + 1, Len(s))

\* s.slice(from, to) with 0 <= from
Slice(s, from, to) ==
  LET e == IF to > Len(s) THEN Len(s) ELSE to
  IN  IF from >= e THEN "" ELSE SubSeq(s, from + 1, e)

StartsWith(s, p) == Len(s) >= Len(p) /\ SubSeq(s, 1, Len(p)) = p

\* the characters String.prototype.trim and the regex class \s remove
IsSpace(c) == c \in {" ", "\t", "\n", "\r", "\f"}

RECURSIVE TrimStart(_)
TrimStart(s) ==
  IF Len(s) > 0 /\ IsSpace(CharAt(s, 0)) THEN TrimStart(SliceFrom(s, 1)) ELSE s

RECURSIVE TrimEnd(_)
TrimEnd(s) ==
  IF Len(s) > 0 /\ IsSpace(CharAt(s, Len(s) - 1))
  THEN TrimEnd(Slice(s, 0, Len(s) - 1)) ELSE s

Trim(s) == TrimEnd(TrimStart(s))

(***************************************************************************)
(* TextDecoder.decode(value, {stream: true}) over the modelled bytes       *)
(***************************************************************************)
LeadByte == "^"        \* byte 0xC3, first byte of a two-byte sequence
ContByte == "~"        \* byte 0xA9, continuation byte
TwoByteChar == "@"     \* the character U+00E9 the two bytes decode to
ReplacementChar == "?" \* U+FFFD, emitted for an ill-formed sequence

\* the concatenation of part[lo] .. part[hi]
RECURSIVE ConcatRange(_, _, _)
ConcatRange(part, lo, hi) ==
  IF lo > hi THEN ""
  ELSE IF lo = hi THEN part[lo]
  ELSE LET mid == (lo + hi) \div 2
       IN  ConcatRange(part, lo, mid) \o ConcatRange(part, mid + 1, hi)

\* the text the decoder emits on reading byte b while holding the incomplete
\* sequence p: a continuation completes a held lead byte, any other byte
\* after a held lead byte makes the held one ill-formed, a lead byte is held
\* and a stray continuation byte is ill-formed
DecodeByte(p, b) ==
  IF p = LeadByte
  THEN IF b = ContByte THEN TwoByteChar
       ELSE IF b = LeadByte THEN ReplacementChar
       ELSE ReplacementChar \o b
  ELSE IF b = LeadByte THEN ""
  ELSE IF b = ContByte THEN ReplacementChar
  ELSE b

\* the incomplete sequence held after reading byte b
HeldAfter(b) == IF b = LeadByte THEN LeadByte ELSE ""

\* decode called without {stream: true}: an incomplete sequence at the end of
\* a chunk is not kept but emitted as ill-formed at once
DecodeNoStream(pend, bytes) ==
  LET n == Len(bytes)
      held(i) == IF i = 1 THEN "" ELSE HeldAfter(CharAt(bytes, i - 2))
      part == [i \in 1..n |-> DecodeByte(held(i), CharAt(bytes, i - 1))]
  IN  [text |-> ConcatRange(part, 1, n) \o
                (IF n > 0 /\ CharAt(bytes, n - 1) = LeadByte THEN ReplacementChar ELSE ""),
       pending |-> ""]

\* One call of decode with stream: true. pend is the incomplete sequence
\* kept from the previous call ("" or LeadByte); the result is the decoded
\* text and the incomplete sequence kept for the next call.
DecodeStream(pend, bytes) ==
  LET n == Len(bytes)
      held(i) == IF i = 1 THEN pend ELSE HeldAfter(CharAt(bytes, i - 2))
      part == [i \in 1..n |-> DecodeByte(held(i), CharAt(bytes, i - 1))]
  IN  [text |-> ConcatRange(part, 1, n),
       pending |-> IF n = 0 THEN pend ELSE HeldAfter(CharAt(bytes, n - 1))]

(***************************************************************************)
(* Frame boundaries: buffer.search(/\r?\n\r?\n/)                           *)
(***************************************************************************)
\* the regular expression /\r?\n\r?\n/ matches at 0-based index i
BoundaryAt(s, i) ==
  LET a == IF CharAt(s, i) = "\r" THEN i + 1 ELSE i
  IN  /\ CharAt(s, a) = "\n"
      /\ \/ CharAt(s, a + 1) = "\n"
         \/ CharAt(s, a + 1) = "\r" /\ CharAt(s, a + 2) = "\n"

\* index of the leftmost match, -1 when there is none
SearchBoundary(s) ==
  LET hits == {i \in 0..(Len(s) - 1) : BoundaryAt(s, i)}
  IN  IF hits = {} THEN -1 ELSE CHOOSE i \in hits : \A j \in hits : i <= j

\* number of characters dropped after the frame text
BoundarySkip(s, boundary) == IF CharAt(s, boundary) = "\r" THEN 4 ELSE 2

(***************************************************************************)
(* chunk.split(/\r?\n/).map(line => line.trim()) and the data line         *)
(***************************************************************************)
\* chunk.indexOf("\n"), -1 when there is none
IndexOfLF(s) ==
  LET hits == {i \in 0..(Len(s) - 1) : CharAt(s, i) = "\n"}
  IN  IF hits = {} THEN -1 ELSE CHOOSE i \in hits : \A j \in hits : i <= j

RECURSIVE SplitLines(_)
SplitLines(s) ==
  LET n == IndexOfLF(s) IN
  IF n = -1 THEN <<s>>
  ELSE LET e == IF n > 0 /\ CharAt(s, n - 1) = "\r" THEN n - 1 ELSE n
       IN  <<Slice(s, 0, e)>> \o SplitLines(SliceFrom(s, n + 1))

TrimmedLines(chunk) ==
  LET ls == SplitLines(chunk) IN [k \in 1..Len(ls) |-> Trim(ls[k])]

NoLine == [found |-> FALSE, line |-> ""]

\* lines.find(line => line.startsWith('data:'))
FindDataLine(lines) ==
  LET hits == {k \in 1..Len(lines) : StartsWith(lines[k], "data:")}
  IN  IF hits = {} THEN NoLine
      ELSE [found |-> TRUE,
            line |-> lines[CHOOSE k \in hits : \A j \in hits : k <= j]]

\* a replace whose pattern never matches
StripDataPrefixKept(raw) == raw

\* raw.replace(/^data:\s*/, '')
StripDataPrefix(raw) ==
  IF StartsWith(raw, "data:") THEN TrimStart(SliceFrom(raw, 5)) ELSE raw

(***************************************************************************)
(* JSON.parse, for the texts the modelled streams carry: objects with      *)
(* string keys, strings (with the single-character escapes), null, true,   *)
(* false and unsigned integers, nested to any depth. A parsed value is a   *)
(* record tagged by t; Undefined is the value of an absent property.       *)
(***************************************************************************)
Undefined == [t |-> "undefined"]
JNull == [t |-> "null"]
JTrue == [t |-> "true"]
JFalse == [t |-> "false"]
JStr(s) == [t |-> "str", s |-> s]
JNum(n) == [t |-> "num", n |-> n]
JObj(f) == [t |-> "obj", f |-> f]
EmptyObj == JObj([k \in {} |-> Undefined])

ParseFail == [ok |-> FALSE, v |-> Undefined, pos |-> 0]
ParseOk(v, pos) == [ok |-> TRUE, v |-> v, pos |-> pos]

IsJsonSpace(c) == c \in {" ", "\t", "\n", "\r"}
IsDigit(c) == c \in {"0", "1", "2", "3", "4", "5", "6", "7", "8", "9"}
DigitVal(c) ==
  CASE c = "0" -> 0 [] c = "1" -> 1 [] c = "2" -> 2 [] c = "3" -> 3
    [] c = "4" -> 4 [] c = "5" -> 5 [] c = "6" -> 6 [] c = "7" -> 7
    [] c = "8" -> 8 [] OTHER -> 9

RECURSIVE SkipWs(_, _)
SkipWs(s, i) == IF IsJsonSpace(CharAt(s, i)) THEN SkipWs(s, i + 1) ELSE i

\* the character a backslash escape stands for, "" when it is not an escape
\* this parser knows
Unescape(c) ==
  CASE c = "\"" -> "\"" [] c = "\\" -> "\\" [] c = "/" -> "/"
    [] c = "n" -> "\n" [] c = "r" -> "\r" [] c = "t" -> "\t"
    [] c = "f" -> "\f" [] OTHER -> ""

\* the rest of a string literal, i is the index after the opening quote
RECURSIVE ParseStringTail(_, _, _)
ParseStringTail(s, i, acc) ==
  LET c == CharAt(s, i) IN
  IF c = "" THEN ParseFail
  ELSE IF c = "\"" THEN ParseOk(JStr(acc), i + 1)
  ELSE IF c = "\\"
       THEN LET u == Unescape(CharAt(s, i + 1)) IN
            IF u = "" THEN ParseFail ELSE ParseStringTail(s, i + 2, acc \o u)
  ELSE IF c \in {"\n", "\r", "\t", "\f"} THEN ParseFail
  ELSE ParseStringTail(s, i + 1, acc \o c)

RECURSIVE ParseDigits(_, _, _)
ParseDigits(s, i, acc) ==
  IF IsDigit(CharAt(s, i))
  THEN ParseDigits(s, i + 1, 10 * acc + DigitVal(CharAt(s, i)))
  ELSE ParseOk(JNum(acc), i)

\* obj with property k set to v (a repeated key keeps the last value)
SetProp(f, k, v) ==
  [x \in (DOMAIN f) \cup {k} |-> IF x = k THEN v ELSE f[x]]

RECURSIVE ParseValue(_, _)
RECURSIVE ParseMembers(_, _, _)
\* the members of an object, i is the index of the next key's opening quote
ParseMembers(s, i, f) ==
  IF CharAt(s, i) # "\"" THEN ParseFail
  ELSE LET k == ParseStringTail(s, i + 1, "") IN
    IF ~k.ok THEN ParseFail
    ELSE LET c == SkipWs(s, k.pos) IN
      IF CharAt(s, c) # ":" THEN ParseFail
      ELSE LET v == ParseValue(s, SkipWs(s, c + 1)) IN
        IF ~v.ok THEN ParseFail
        ELSE LET g == SetProp(f, k.v.s, v.v)
                 e == SkipWs(s, v.pos)
             IN  IF CharAt(s, e) = "}" THEN ParseOk(JObj(g), e + 1)
                 ELSE IF CharAt(s, e) = ","
                      THEN ParseMembers(s, SkipWs(s, e + 1), g)
                 ELSE ParseFail

ParseValue(s, i) ==
  LET c == CharAt(s, i) IN
  IF c = "{"
  THEN LET j == SkipWs(s, i + 1) IN
       IF CharAt(s, j) = "}" THEN ParseOk(EmptyObj, j + 1)
       ELSE ParseMembers(s, j, EmptyObj.f)
  ELSE IF c = "\"" THEN ParseStringTail(s, i + 1, "")
  ELSE IF Slice(s, i, i + 4) = "null" THEN ParseOk(JNull, i + 4)
  ELSE IF Slice(s, i, i + 4) = "true" THEN ParseOk(JTrue, i + 4)
  ELSE IF Slice(s, i, i + 5) = "false" THEN ParseOk(JFalse, i + 5)
  ELSE IF c = "0" THEN ParseOk(JNum(0), i + 1)
  ELSE IF IsDigit(c) THEN ParseDigits(s, i, 0)
  ELSE ParseFail

\* JSON.parse(text): ok is FALSE where JSON.parse throws a SyntaxError
JsonParse(text) ==
  LET r == ParseValue(text, SkipWs(text, 0)) IN
  IF r.ok /\ SkipWs(text, r.pos) = Len(text) THEN r ELSE ParseFail

\* obj.key for a parsed value that is not null
Prop(v, k) ==
  IF v.t = "obj" /\ k \in DOMAIN v.f THEN v.f[k] ELSE Undefined

\* JavaScript truthiness of a parsed value
Truthy(v) ==
  CASE v.t = "str" -> v.s # ""
    [] v.t = "num" -> v.n # 0
    [] v.t \in {"obj", "true"} -> TRUE
    [] OTHER -> FALSE

\* value === 'text'
StrictEq(v, text) == v.t = "str" /\ v.s = text

\* nullish test of the ?? operator
Nullish(v) == v.t \in {"undefined", "null"}

\* String(value), as string concatenation and template literals apply it
ToStr(v) ==
  CASE v.t = "str" -> v.s
    [] v.t = "num" -> ToString(v.n)
    [] v.t = "obj" -> "[object Object]"
    [] OTHER -> v.t

(***************************************************************************)
(* services/api.ts: parseEventPayload and the frame loop of                *)
(* analyzeCaseStream. A handler invocation is a record: h names the        *)
(* handler, a is its argument (vlm_output for onDone), b is llm_report.    *)
(***************************************************************************)
Call(h, a, b) == [h |-> h, a |-> a, b |-> b]

NullPayload == [isNull |-> TRUE, v |-> Undefined]

\* parseEventPayload reporting a payload it cannot parse as an error event
\* instead of returning null
parseEventPayloadStrict(raw) ==
  LET cleaned == Trim(StripDataPrefix(raw)) IN
  IF cleaned = "" THEN NullPayload
  ELSE LET r == JsonParse(cleaned) IN
       IF r.ok THEN [isNull |-> r.v.t = "null", v |-> r.v]
       ELSE [isNull |-> FALSE,
             v |-> JObj([k \in {"event", "message"} |->
                          IF k = "event" THEN JStr("error") ELSE JStr(cleaned)])]

\* parseEventPayload(raw): isNull where it returns null
parseEventPayload(raw) ==
  LET cleaned == Trim(StripDataPrefix(raw)) IN
  IF cleaned = "" THEN NullPayload
  ELSE LET r == JsonParse(cleaned) IN
       IF r.ok THEN [isNull |-> r.v.t = "null", v |-> r.v] ELSE NullPayload

\* a dispatch on the event name alone, without the tests of state and token
DispatchPayloadByEventOnly(payload) ==
  LET event == IF payload.isNull THEN Undefined ELSE Prop(payload.v, "event")
      p == payload.v
  IN  IF StrictEq(event, "status")
      THEN <<Call("onStatus", Prop(p, "state"), Undefined)>>
      ELSE IF StrictEq(event, "vlm_token")
      THEN <<Call("onVlmToken", Prop(p, "token"), Undefined)>>
      ELSE IF StrictEq(event, "llm_token")
      THEN <<Call("onLlmToken", Prop(p, "token"), Undefined)>>
      ELSE IF StrictEq(event, "done")
      THEN <<Call("onDone", Prop(p, "vlm_output"), Prop(p, "llm_report"))>>
      ELSE IF StrictEq(event, "error")
      THEN <<Call("onError",
                  IF Truthy(Prop(p, "message")) THEN Prop(p, "message")
                  ELSE JStr("Stream error"),
                  Undefined)>>
      ELSE <<>>

\* the handler invocations one payload triggers (the if/else chain)
DispatchPayload(payload) ==
  LET event == IF payload.isNull THEN Undefined ELSE Prop(payload.v, "event")
      p == payload.v
  IN  IF StrictEq(event, "status") /\ Truthy(Prop(p, "state"))
      THEN <<Call("onStatus", Prop(p, "state"), Undefined)>>
      ELSE IF StrictEq(event, "vlm_token") /\ Truthy(Prop(p, "token"))
      THEN <<Call("onVlmToken", Prop(p, "token"), Undefined)>>
      ELSE IF StrictEq(event, "llm_token") /\ Truthy(Prop(p, "token"))
      THEN <<Call("onLlmToken", Prop(p, "token"), Undefined)>>
      ELSE IF StrictEq(event, "done")
      THEN <<Call("onDone", Prop(p, "vlm_output"), Prop(p, "llm_report"))>>
      ELSE IF StrictEq(event, "error")
      THEN <<Call("onError",
                  IF Truthy(Prop(p, "message")) THEN Prop(p, "message")
                  ELSE JStr("Stream error"),
                  Undefined)>>
      ELSE <<>>

\* the handler invocations one frame text triggers
FrameCalls(chunk) ==
  LET dataLine == FindDataLine(TrimmedLines(chunk)) IN
  IF ~dataLine.found \/ StartsWith(dataLine.line, ":") THEN <<>>
  ELSE DispatchPayload(parseEventPayload(dataLine.line))

\* the inner while loop: every complete frame is cut off the front of the
\* buffer and dispatched; the result is the invocations made, in order, and
\* the text left in the buffer
RECURSIVE DrainBuffer(_, _)
DrainBuffer(buffer, calls) ==
  LET boundary == SearchBoundary(buffer) IN
  IF boundary = -1 THEN [calls |-> calls, buffer |-> buffer]
  ELSE DrainBuffer(SliceFrom(buffer, boundary + BoundarySkip(buffer, boundary)),
                   calls \o FrameCalls(Slice(buffer, 0, boundary)))

\* one iteration of the outer loop for a chunk the reader returned: the
\* decoder state and buffer after it and the invocations it made
ReadStep(pend, buffer, bytes) ==
  LET d == DecodeStream(pend, bytes)
      r == DrainBuffer(buffer \o d.text, <<>>)
  IN  [pending |-> d.pending, buffer |-> r.buffer, calls |-> r.calls]

(***************************************************************************)
(* chat-frontend/App.tsx: the state of the chat page                       *)
(***************************************************************************)
VARIABLES
  sessions,          \* useState<ChatSession[]>: the stored sessions, newest first
  currentSessionId,  \* useState<string | null>: the active session, Null for none
  messages,          \* useState<Message[]>: the active message list
  input,             \* useState(''): the text box
  selectedImage,     \* useState<Attachment | null>: the picked image
  isLoading,         \* useState(false): the in-flight flag
  error,             \* useState<string | null>: the error surface, Null for none
  pc,                \* where the running handleSend is: "idle", "fetch", "read"
  modelMsgId,        \* const modelMsgId of the running handleSend
  vlmBuffer,         \* let vlmBuffer of the running handleSend
  llmBuffer,         \* let llmBuffer of the running handleSend
  buffer,            \* let buffer of the running analyzeCaseStream
  pending,           \* bytes the TextDecoder holds between two decode calls
  now,               \* the last value Date.now() returned
  requests,          \* number of fetch calls issued so far
  reads,             \* number of chunks read by the running analyzeCaseStream
  op,                \* the handler that made the last step and its argument:
                     \* h is "handleSend" (arg: the text box), "loadSession"
                     \* (arg: the session id), "readChunk" (arg: the bytes)
                     \* or "other" for every other handler
  log,               \* the handler invocations of the last read, each with the
                     \* content it published
  llmTokens,         \* the llm_token tokens of the running request, concatenated
  terminal,          \* "done" or "error" once such an event was processed by
                     \* the running request, "none" before
  steps,             \* number of handler runs so far
  stream,            \* the bytes of a response body read with recording handlers
  pos,               \* how many of them reader.read() has returned
  recorded,          \* the handler invocations recorded so far, in order
  sent,              \* the events the server has written to the body, in order
  index              \* the form page (pages/Index.tsx): its two useState values,
                     \* the last toast and the locals of the running onSubmit

vars == <<sessions, currentSessionId, messages, input, selectedImage, isLoading,
          error, pc, modelMsgId, vlmBuffer, llmBuffer, buffer, pending, now,
          requests, reads, op, log, llmTokens, terminal, steps, stream, pos,
          recorded, sent, index>>

Null == "<null>"                                  \* JavaScript null
NoImage == [mimeType |-> "", url |-> "", file |-> ""]     \* selectedImage === null
NoAttachment == [mimeType |-> "", url |-> ""]     \* attachment: undefined

Ran(h, arg) == [h |-> h, arg |-> arg]

USER == "user"
MODEL == "model"

\* a Message as handleSend builds it: the optional isStreaming is never given
Message(id, role, content, timestamp, attachment) ==
  [id |-> id, role |-> role, content |-> content, timestamp |-> timestamp,
   attachment |-> attachment, isStreaming |-> Undefined]

ChatSession(id, title, date, msgs) ==
  [id |-> id, title |-> title, date |-> date, messages |-> msgs]

QueuedText == "Queued... awaiting GPU availability."
AnalyzingText == "Analyzing..."

\* an update that finds the message by its role
updateModelContentByRole(prev, id, content) ==
  [k \in 1..Len(prev) |->
     IF prev[k].role = MODEL THEN [prev[k] EXCEPT !.content = content] ELSE prev[k]]

\* prev.map(msg => msg.id === modelMsgId ? {...msg, content} : msg)
updateModelContent(prev, id, content) ==
  [k \in 1..Len(prev) |->
     IF prev[k].id = id THEN [prev[k] EXCEPT !.content = content] ELSE prev[k]]

\* the effect on [messages, currentSessionId]: the active list is copied into
\* every stored session that has the active id
SyncSessions(ss, cur, msgs) ==
  IF cur = Null THEN ss
  ELSE [k \in 1..Len(ss) |->
          IF ss[k].id = cur THEN [ss[k] EXCEPT !.messages = msgs] ELSE ss[k]]

(***************************************************************************)
(* The five handlers handleSend passes to analyzeCaseStream. They work on  *)
(* a record of what they can change: the active list (through the          *)
(* functional setMessages update), the two buffers and the error surface.  *)
(***************************************************************************)
Published(c, content) == [h |-> c.h, a |-> c.a, b |-> c.b, pub |-> TRUE, content |-> content]
NotPublished(c) == [h |-> c.h, a |-> c.a, b |-> c.b, pub |-> FALSE, content |-> ""]

\* updateModelContent(content) of the running handleSend, with its record
Publish(st, c, id, content) ==
  [st EXCEPT !.messages = updateModelContent(st.messages, id, content),
             !.log = Append(st.log, Published(c, content))]

\* onStatus without the processing branch
onStatusQueuedOnly(st, c, id) ==
  IF StrictEq(c.a, "queued") THEN Publish(st, c, id, QueuedText)
  ELSE [st EXCEPT !.log = Append(st.log, NotPublished(c))]

onStatus(st, c, id) ==
  IF StrictEq(c.a, "queued") THEN Publish(st, c, id, QueuedText)
  ELSE IF StrictEq(c.a, "processing") THEN Publish(st, c, id, AnalyzingText)
  ELSE [st EXCEPT !.log = Append(st.log, NotPublished(c))]

\* refreshModelContent(): the trimmed llm buffer is published
refreshModelContent(st, c, id) == Publish(st, c, id, Trim(st.llm))

\* onVlmToken publishing the vision-model buffer
onVlmTokenShown(st, c, id) ==
  Publish([st EXCEPT !.vlm = st.vlm \o ToStr(c.a)], c, id,
          Trim(st.vlm \o ToStr(c.a)))

onVlmToken(st, c, id) ==
  refreshModelContent([st EXCEPT !.vlm = st.vlm \o ToStr(c.a)], c, id)

onLlmToken(st, c, id) ==
  refreshModelContent([st EXCEPT !.llm = st.llm \o ToStr(c.a),
                                 !.llmTokens = st.llmTokens \o ToStr(c.a)], c, id)

\* onDone taking an absent field for an empty final value
onDoneErasing(st, c, id) ==
  refreshModelContent(
    [st EXCEPT !.vlm = IF Nullish(c.a) THEN "" ELSE ToStr(c.a),
               !.llm = IF Nullish(c.b) THEN "" ELSE ToStr(c.b),
               !.terminal = "done"], c, id)

onDone(st, c, id) ==
  refreshModelContent(
    [st EXCEPT !.vlm = IF Nullish(c.a) THEN st.vlm ELSE ToStr(c.a),
               !.llm = IF Nullish(c.b) THEN st.llm ELSE ToStr(c.b),
               !.terminal = "done"], c, id)

\* onError publishing the bare message, without the "Error: " prefix
onErrorBare(st, c, id) ==
  Publish([st EXCEPT !.error = ToStr(c.a), !.terminal = "error"],
          c, id, ToStr(c.a))

onError(st, c, id) ==
  Publish([st EXCEPT !.error = ToStr(c.a), !.terminal = "error"],
          c, id, "Error: " \o ToStr(c.a))

ApplyCall(st, c, id) ==
  CASE c.h = "onStatus" -> onStatus(st, c, id)
    [] c.h = "onVlmToken" -> onVlmToken(st, c, id)
    [] c.h = "onLlmToken" -> onLlmToken(st, c, id)
    [] c.h = "onDone" -> onDone(st, c, id)
    [] OTHER -> onError(st, c, id)

\* the invocations of one read, applied in order
RECURSIVE FoldCalls(_, _, _)
FoldCalls(st, calls, id) ==
  IF calls = <<>> THEN st
  ELSE FoldCalls(ApplyCall(st, Head(calls), id), Tail(calls), id)

(***************************************************************************)
(* Bounds and the inputs the environment supplies                          *)
(***************************************************************************)
MaxSteps == 8      \* handler runs in one behaviour of the chat page
MaxReads == 3      \* chunks the reader returns for one request

\* texts typed into the text box
InputTexts == {" ", " hi "}

\* files offered to the file input: type is file.type, url the data URL the
\* FileReader produces ("" when reading fails)
ImageFile == [name |-> "scan.png", type |-> "image/png", url |-> "data:image/png;base64,AA"]
BrokenImageFile == [name |-> "bad.png", type |-> "image/png", url |-> ""]
TextFile == [name |-> "notes.txt", type |-> "text/plain", url |-> "data:text/plain;base64,AA"]
Files == {ImageFile, BrokenImageFile, TextFile}

\* frames of the wire protocol, as the bytes of the response body
FrameQueued == "data: {\"event\":\"status\",\"state\":\"queued\"}\n\n"
FrameProcessing == "data: {\"event\":\"status\",\"state\":\"processing\"}\n\n"
FrameLlmX == "data: {\"event\":\"llm_token\",\"token\":\" x\"}\n\n"
FrameLlmY == "data: {\"event\":\"llm_token\",\"token\":\"y \"}\n\n"
FrameVlm == "data: {\"event\":\"vlm_token\",\"token\":\"v\"}\n\n"
FrameDone == "data: {\"event\":\"done\",\"llm_report\":\" r \"}\n\n"
FrameDoneVlm == "data: {\"event\":\"done\",\"vlm_output\":\" w \"}\n\n"
FrameDoneBare == "data: {\"event\":\"done\"}\n\n"
FrameError == "data: {\"event\":\"error\",\"message\":\"GPU busy\"}\n\n"
FrameErrorBare == "data: {\"event\":\"error\"}\n\n"
FrameErrorEmpty == "data: {\"event\":\"error\",\"message\":\"\"}\n\n"
FrameNotJson == "data: not-json\n\n"
FrameTokensAroundNotJson == FrameLlmX \o FrameNotJson \o FrameLlmY

\* chunks reader.read() returns while the whole page is explored
PageChunks == {FrameLlmX}

\* chunks reader.read() returns while one request is explored
StreamChunks ==
  {FrameQueued, FrameLlmX, FrameVlm, FrameDone,
   FrameDoneVlm, FrameDoneBare, FrameError, FrameErrorBare, FrameErrorEmpty,
   FrameNotJson, FrameTokensAroundNotJson}

\* responses of the analysis endpoint that are not a readable stream:
\* body is the text response.json() parses
DetailResponse == [statusText |-> "Service Unavailable", body |-> "{\"detail\":\"GPU busy\"}"]
HtmlResponse == [statusText |-> "Bad Gateway", body |-> "<html>502</html>"]
EmptyDetailResponse == [statusText |-> "Bad Request", body |-> "{\"detail\":\"\"}"]
NoDetailResponse == [statusText |-> "Not Found", body |-> "{\"error\":\"gone\"}"]
NoTextResponse == [statusText |-> "", body |-> "<html>503</html>"]   \* HTTP/2
NoBodyResponse == [statusText |-> "OK", body |-> ""]        \* ok, body null
PageResponses == {DetailResponse}
StreamResponses ==
  {DetailResponse, HtmlResponse, EmptyDetailResponse, NoDetailResponse,
   NoTextResponse, NoBodyResponse}

\* messages of the errors fetch and reader.read() reject with
NetworkErrors == {"Failed to fetch"}

\* the form page after mount: useState("") and useState(false), no toast
\* shown, no onSubmit running
IndexMounted ==
  [response |-> "", isLoading |-> FALSE, toast |-> Null, pc |-> "idle",
   buffer |-> "", pending |-> "", vlmBuffer |-> "", llmBuffer |-> "",
   reads |-> 0, op |-> Ran("other", ""), steps |-> 0]

(***************************************************************************)
(* Init: the page after mount (useState defaults, then startNewChat)       *)
(***************************************************************************)
Init ==
  /\ sessions = <<>>
  /\ currentSessionId = Null
  /\ messages = <<>>
  /\ input = ""
  /\ selectedImage = NoImage
  /\ isLoading = FALSE
  /\ error = Null
  /\ pc = "idle"
  /\ modelMsgId = Null
  /\ vlmBuffer = ""
  /\ llmBuffer = ""
  /\ buffer = ""
  /\ pending = ""
  /\ now = 1
  /\ requests = 0
  /\ reads = 0
  /\ op = Ran("other", "")
  /\ log = <<>>
  /\ llmTokens = ""
  /\ terminal = "none"
  /\ steps = 0
  /\ stream = ""
  /\ pos = 0
  /\ recorded = <<>>
  /\ sent = <<>>
  /\ index = IndexMounted

reqVars == <<pc, modelMsgId, vlmBuffer, llmBuffer, buffer, pending, reads,
             llmTokens, terminal, requests, now>>

\* every handler run of the chat page counts as one step of the behaviour
Tick ==
  steps < MaxSteps /\ steps' = steps + 1 /\ UNCHANGED <<stream, pos, recorded, sent, index>>

(***************************************************************************)
(* User actions                                                            *)
(***************************************************************************)
\* onChange of the text box
TypeInput(text) ==
  /\ Tick
  /\ input' = text
  /\ op' = Ran("other", "")
  /\ log' = <<>>
  /\ UNCHANGED <<sessions, currentSessionId, messages, selectedImage, isLoading,
                 error, reqVars>>

\* a new chat that is put into the store at once
startNewChatStoresSession ==
  /\ Tick
  /\ messages' = <<>>
  /\ currentSessionId' = ToString(now)
  /\ selectedImage' = NoImage
  /\ input' = ""
  /\ sessions' = <<ChatSession(ToString(now), "New Chat", now, <<>>)>> \o sessions
  /\ op' = Ran("startNewChat", "")
  /\ log' = <<>>
  /\ UNCHANGED <<isLoading, error, reqVars>>

\* a new chat that also resets the error surface
startNewChatResetsError ==
  /\ Tick
  /\ messages' = <<>>
  /\ currentSessionId' = Null
  /\ selectedImage' = NoImage
  /\ input' = ""
  /\ sessions' = SyncSessions(sessions, Null, <<>>)
  /\ op' = Ran("startNewChat", "")
  /\ log' = <<>>
  /\ error' = Null
  /\ UNCHANGED <<isLoading, reqVars>>

startNewChat ==
  /\ Tick
  /\ messages' = <<>>
  /\ currentSessionId' = Null
  /\ selectedImage' = NoImage
  /\ input' = ""
  /\ sessions' = SyncSessions(sessions, Null, <<>>)
  /\ op' = Ran("startNewChat", "")
  /\ log' = <<>>
  /\ UNCHANGED <<isLoading, error, reqVars>>

loadSession(sessionId) ==
  LET found == {k \in 1..Len(sessions) : sessions[k].id = sessionId} IN
  /\ Tick
  /\ op' = Ran("loadSession", sessionId)
  /\ log' = <<>>
  /\ IF found = {}
     THEN UNCHANGED <<sessions, currentSessionId, messages, selectedImage, input>>
     ELSE LET session == sessions[CHOOSE k \in found : \A j \in found : k <= j] IN
          /\ currentSessionId' = sessionId
          /\ messages' = session.messages
          /\ selectedImage' = NoImage
          /\ input' = ""
          /\ sessions' = SyncSessions(sessions, sessionId, session.messages)
  /\ UNCHANGED <<isLoading, error, reqVars>>

handleFileSelect(file) ==
  /\ Tick
  /\ op' = Ran("handleFileSelect", file.name)
  /\ log' = <<>>
  /\ IF ~StartsWith(file.type, "image/")
     THEN error' = "Please select a valid image." /\ UNCHANGED selectedImage
     ELSE IF file.url = ""
     THEN error' = "Failed to process image." /\ UNCHANGED selectedImage
     ELSE /\ selectedImage' = [mimeType |-> file.type, url |-> file.url, file |-> file.name]
          /\ error' = Null
  /\ UNCHANGED <<sessions, currentSessionId, messages, input, isLoading, reqVars>>

clearImage ==
  /\ Tick
  /\ selectedImage' = NoImage
  /\ op' = Ran("clearImage", "")
  /\ log' = <<>>
  /\ UNCHANGED <<sessions, currentSessionId, messages, input, isLoading, error,
                 reqVars>>

(***************************************************************************)
(* handleSend                                                              *)
(***************************************************************************)
\* a text box that only looks non-empty
hasContentUntrimmed == Len(input) > 0 \/ selectedImage # NoImage

\* input.trim().length > 0 || selectedImage
hasContent == Len(Trim(input)) > 0 \/ selectedImage # NoImage

\* a guard that forgets the request in flight
sendBlockedIdleOnly == ~hasContent

\* the early return of handleSend: if (!hasContent || isLoading) return
sendBlocked == ~hasContent \/ isLoading

\* an update that drops the placeholder
appendUserOnly(prev, newUserMsg, modelMsg) == prev \o <<newUserMsg>>

\* setMessages((prev) => [...prev, newUserMsg, modelMsg])
appendPair(prev, newUserMsg, modelMsg) == prev \o <<newUserMsg, modelMsg>>

\* a title cut to 30 characters without the ellipsis
SessionTitleCutOnly(userText) ==
  LET titleText == IF Len(userText) > 0 THEN userText ELSE "Image Query"
  IN  Slice(titleText, 0, 30)

SessionTitle(userText) ==
  LET titleText == IF Len(userText) > 0 THEN userText ELSE "Image Query"
  IN  Slice(titleText, 0, 30) \o (IF Len(titleText) > 30 THEN "..." ELSE "")

\* handleSend up to its first await: the guard, the two appended messages, the
\* session created when none is active, and the fetch analyzeCaseStream
\* issues. t is the value Date.now() returns during the call.
handleSend(t) ==
  /\ Tick
  /\ op' = Ran("handleSend", input)
  /\ log' = <<>>
  /\ IF sendBlocked
     THEN UNCHANGED <<sessions, currentSessionId, messages, input, selectedImage,
                      isLoading, error, reqVars>>
     ELSE LET userText == Trim(input)
              attachmentForMessage ==
                IF selectedImage # NoImage
                THEN [mimeType |-> selectedImage.mimeType, url |-> selectedImage.url]
                ELSE NoAttachment
              newUserMsg == Message(ToString(t), USER, userText, t, attachmentForMessage)
              id == ToString(t) \o "-model"
              modelMsg == Message(id, MODEL, "", t, NoAttachment)
              newSessionId == ToString(t)
              newSession == ChatSession(newSessionId, SessionTitle(userText), t,
                                        <<newUserMsg>>)
              cur == IF currentSessionId = Null THEN newSessionId ELSE currentSessionId
              ss == IF currentSessionId = Null THEN <<newSession>> \o sessions
                    ELSE sessions
          IN  /\ input' = ""
              /\ selectedImage' = NoImage
              /\ messages' = appendPair(messages, newUserMsg, modelMsg)
              /\ isLoading' = TRUE
              /\ error' = Null
              /\ currentSessionId' = cur
              /\ sessions' = SyncSessions(ss, cur, messages')
              /\ modelMsgId' = id
              /\ vlmBuffer' = ""
              /\ llmBuffer' = ""
              /\ buffer' = ""
              /\ pending' = ""
              /\ reads' = 0
              /\ llmTokens' = ""
              /\ terminal' = "none"
              /\ requests' = requests + 1
              /\ now' = t
              /\ pc' = "fetch"

\* a handleSend that never leaves the read loop
RequestOverStillReading ==
  /\ pc' = pc
  /\ vlmBuffer' = ""
  /\ llmBuffer' = ""
  /\ buffer' = ""
  /\ pending' = ""
  /\ reads' = 0
  /\ llmTokens' = ""
  /\ terminal' = "none"
  /\ log' = <<>>
  /\ UNCHANGED <<modelMsgId, requests, now>>

\* the request-local state once handleSend has returned
RequestOver ==
  /\ pc' = "idle"
  /\ vlmBuffer' = ""
  /\ llmBuffer' = ""
  /\ buffer' = ""
  /\ pending' = ""
  /\ reads' = 0
  /\ llmTokens' = ""
  /\ terminal' = "none"
  /\ log' = <<>>
  /\ UNCHANGED <<modelMsgId, requests, now>>

\* a catch block that only logs
sendFailsSilent(detail) ==
  /\ isLoading' = FALSE
  /\ RequestOver
  /\ UNCHANGED <<error, messages, sessions, currentSessionId, input, selectedImage>>

\* the catch and finally blocks: an error thrown by analyzeCaseStream becomes
\* the error surface and the placeholder's content, and the flag is cleared
sendFails(detail) ==
  /\ error' = detail
  /\ messages' = updateModelContent(messages, modelMsgId, "Error: " \o detail)
  /\ sessions' = SyncSessions(sessions, currentSessionId, messages')
  /\ isLoading' = FALSE
  /\ RequestOver
  /\ UNCHANGED <<currentSessionId, input, selectedImage>>

\* fetch resolves with a readable stream
fetchOk ==
  /\ Tick
  /\ pc = "fetch"
  /\ pc' = "read"
  /\ op' = Ran("other", "")
  /\ log' = <<>>
  /\ UNCHANGED <<sessions, currentSessionId, messages, input, selectedImage,
                 isLoading, error, modelMsgId, vlmBuffer, llmBuffer, buffer,
                 pending, reads, llmTokens, terminal, requests, now>>

\* the message of the Error thrown for a response that is not ok or has no
\* body: detail?.detail || 'Request failed', where detail is the parsed body
\* or {detail: response.statusText} when response.json() rejects
\* the message without the || 'Request failed' fallback
ResponseErrorNoFallback(resp) ==
  LET r == JsonParse(resp.body)
      detail == IF r.ok THEN r.v ELSE JObj([k \in {"detail"} |-> JStr(resp.statusText)])
  IN  ToStr(IF detail.t = "null" THEN Undefined ELSE Prop(detail, "detail"))

ResponseError(resp) ==
  LET r == JsonParse(resp.body)
      detail == IF r.ok THEN r.v ELSE JObj([k \in {"detail"} |-> JStr(resp.statusText)])
      d == IF detail.t = "null" THEN Undefined ELSE Prop(detail, "detail")
  IN  IF Truthy(d) THEN ToStr(d) ELSE "Request failed"

fetchNotOk(resp) ==
  /\ Tick
  /\ pc = "fetch"
  /\ op' = Ran("fetchNotOk", resp.body)
  /\ sendFails(ResponseError(resp))

\* fetch rejects
fetchRejects(msg) ==
  /\ Tick
  /\ pc = "fetch"
  /\ op' = Ran("fetchRejects", msg)
  /\ sendFails(msg)

\* reader.read() returns a chunk: it is decoded, every complete frame is
\* dispatched to the handlers, and the page re-renders
foldChunk(bytes) ==
  /\ \E r \in {ReadStep(pending, buffer, bytes)} :
     \E st \in {FoldCalls([messages |-> messages, vlm |-> vlmBuffer,
                           llm |-> llmBuffer, error |-> error, log |-> <<>>,
                           llmTokens |-> llmTokens, terminal |-> terminal],
                          r.calls, modelMsgId)} :
         /\ pending' = r.pending
         /\ buffer' = r.buffer
         /\ messages' = st.messages
         /\ vlmBuffer' = st.vlm
         /\ llmBuffer' = st.llm
         /\ error' = st.error
         /\ log' = st.log
         /\ llmTokens' = st.llmTokens
         /\ terminal' = st.terminal
         /\ sessions' = SyncSessions(sessions, currentSessionId, st.messages)
  /\ op' = Ran("readChunk", bytes)
  /\ UNCHANGED <<currentSessionId, input, selectedImage, isLoading, pc,
                 modelMsgId, requests, now>>

readChunk(bytes) ==
  /\ Tick
  /\ pc = "read"
  /\ reads < MaxReads
  /\ reads' = reads + 1
  /\ foldChunk(bytes)

\* an end of stream taken for a failure
readDoneAsFailure ==
  /\ Tick
  /\ pc = "read"
  /\ op' = Ran("readDone", "")
  /\ sendFails("Stream ended")

\* reader.read() reports the end of the stream: analyzeCaseStream returns and
\* the finally block clears the flag
readDone ==
  /\ Tick
  /\ pc = "read"
  /\ isLoading' = FALSE
  /\ RequestOver
  /\ op' = Ran("readDone", "")
  /\ UNCHANGED <<sessions, currentSessionId, messages, input, selectedImage, error>>

\* reader.read() rejects
readRejects(msg) ==
  /\ Tick
  /\ pc = "read"
  /\ op' = Ran("readRejects", msg)
  /\ sendFails(msg)

(***************************************************************************)
(* The chat page: every handler, with the small chunk set                  *)
(***************************************************************************)
Next ==
  \/ \E text \in InputTexts : TypeInput(text)
  \/ startNewChat
  \/ \E k \in 1..Len(sessions) : loadSession(sessions[k].id)
  \/ \E file \in Files : handleFileSelect(file)
  \/ clearImage
  \/ \E t \in {now, now + 1} : handleSend(t)
  \/ fetchOk
  \/ \E resp \in PageResponses : fetchNotOk(resp)
  \/ \E msg \in NetworkErrors : fetchRejects(msg)
  \/ \E bytes \in PageChunks : readChunk(bytes)
  \/ readDone
  \/ \E msg \in NetworkErrors : readRejects(msg)

Spec == Init /\ [][Next]_vars

(***************************************************************************)
(* One request: the page right after the first submit of " hi " was        *)
(* accepted, then every stream event of the large chunk set, interleaved   *)
(* with the session actions of the sidebar and further submits             *)
(***************************************************************************)
FirstUserMsg == Message("1", USER, "hi", 1, NoAttachment)
FirstModelMsg == Message("1-model", MODEL, "", 1, NoAttachment)

InitStream ==
  /\ sessions = <<ChatSession("1", "hi", 1, <<FirstUserMsg, FirstModelMsg>>)>>
  /\ currentSessionId = "1"
  /\ messages = <<FirstUserMsg, FirstModelMsg>>
  /\ input = ""
  /\ selectedImage = NoImage
  /\ isLoading = TRUE
  /\ error = Null
  /\ pc = "fetch"
  /\ modelMsgId = "1-model"
  /\ vlmBuffer = ""
  /\ llmBuffer = ""
  /\ buffer = ""
  /\ pending = ""
  /\ now = 1
  /\ requests = 1
  /\ reads = 0
  /\ op = Ran("handleSend", " hi ")
  /\ log = <<>>
  /\ llmTokens = ""
  /\ terminal = "none"
  /\ steps = 2
  /\ stream = ""
  /\ pos = 0
  /\ recorded = <<>>
  /\ sent = <<>>
  /\ index = IndexMounted

NextStream ==
  \/ fetchOk
  \/ \E resp \in StreamResponses : fetchNotOk(resp)
  \/ \E msg \in NetworkErrors : fetchRejects(msg)
  \/ \E bytes \in StreamChunks : readChunk(bytes)
  \/ readDone
  \/ \E msg \in NetworkErrors : readRejects(msg)
  \/ startNewChat
  \/ \E k \in 1..Len(sessions) : loadSession(sessions[k].id)
  \/ \E t \in {now, now + 1} : handleSend(t)

SpecStream == InitStream /\ [][NextStream]_vars

(***************************************************************************)
(* analyzeCaseStream on its own: a response body is read in chunks of any  *)
(* length and the handlers only record their invocations                   *)
(***************************************************************************)
FrameKeepAlive == ": keep-alive\n\n"
FrameLlmAccent == "data: {\"event\":\"llm_token\",\"token\":\"^~\"}\n\n"
FrameNamedDone == "event: m\ndata: {\"event\":\"done\",\"vlm_output\":\"v\"}\n\n"
CrLfError == "data: {\"event\":\"error\"}\r\n\r\n"
CrLfKeepAlive == ": keep-alive\r\n\r\n"
CrLfNamedVlm == "event: m\r\ndata: {\"event\":\"vlm_token\",\"token\":\"^~\"}\r\n\r\n"

\* well-formed bodies: every frame ends with a blank line, with one line
\* ending throughout
WireStreams ==
  { FrameLlmAccent \o FrameKeepAlive \o FrameNamedDone,
    FrameNotJson \o FrameLlmX,
    CrLfError \o CrLfKeepAlive \o CrLfNamedVlm }

chatVarsNoSent == <<sessions, currentSessionId, messages, input, selectedImage,
              isLoading, error, modelMsgId, vlmBuffer, llmBuffer, requests, now,
              op, log, llmTokens, terminal, steps, index>>

chatVars == <<sessions, currentSessionId, messages, input, selectedImage,
              isLoading, error, modelMsgId, vlmBuffer, llmBuffer, requests, now,
              op, log, llmTokens, terminal, steps, sent, index>>

InitWire ==
  /\ stream \in WireStreams
  /\ pos = 0
  /\ recorded = <<>>
  /\ sent = <<>>
  /\ index = IndexMounted
  /\ buffer = ""
  /\ pending = ""
  /\ reads = 0
  /\ pc = "read"
  /\ sessions = <<>>
  /\ currentSessionId = Null
  /\ messages = <<>>
  /\ input = ""
  /\ selectedImage = NoImage
  /\ isLoading = FALSE
  /\ error = Null
  /\ modelMsgId = Null
  /\ vlmBuffer = ""
  /\ llmBuffer = ""
  /\ now = 1
  /\ requests = 0
  /\ op = Ran("other", "")
  /\ log = <<>>
  /\ llmTokens = ""
  /\ terminal = "none"
  /\ steps = 0

\* reader.read() returns the next n bytes of the body; reads counts the
\* chunks up to two
wireRead(n) ==
  /\ pc = "read"
  /\ pos + n <= Len(stream)
  /\ \E r \in {ReadStep(pending, buffer, Slice(stream, pos, pos + n))} :
         /\ pending' = r.pending
         /\ buffer' = r.buffer
         /\ recorded' = recorded \o r.calls
  /\ pos' = pos + n
  /\ reads' = (IF reads < 2 THEN reads + 1 ELSE reads)
  /\ UNCHANGED <<pc, stream, chatVars>>

\* an end of body that dispatches what is left in the buffer as a last frame
wireEndFlushing ==
  /\ pc = "read"
  /\ pos = Len(stream)
  /\ pc' = "idle"
  /\ recorded' = recorded \o FrameCalls(buffer)
  /\ buffer' = ""
  /\ UNCHANGED <<pending, pos, reads, stream, chatVars>>

\* reader.read() reports the end of the body: the loop is left
wireEnd ==
  /\ pc = "read"
  /\ pos = Len(stream)
  /\ pc' = "idle"
  /\ UNCHANGED <<pending, buffer, recorded, pos, reads, stream, chatVars>>

NextWire ==
  \/ \E n \in 1..(Len(stream) - pos) : wireRead(n)
  \/ wireEnd

SpecWire == InitWire /\ [][NextWire]_vars

\* the invocations made when the whole body arrives as a single chunk
WholeBodyCalls(bytes) == ReadStep("", "", bytes).calls

(***************************************************************************)
(* Properties                                                              *)
(***************************************************************************)
\* C1: chunk-boundary independence. When a well-formed body has been read to
\* its end, in chunks cut at any positions, the handler invocations made are
\* the ones made when the whole body arrives as one chunk, in the same order.
ChunkBoundaryIndependence ==
  (pc = "idle" /\ stream # "") => recorded = WholeBodyCalls(stream)

\* a body read to its end in at least two chunks, with invocations made
ChunkedBodyRead ==
  pc = "idle" /\ stream # "" /\ reads >= 2 /\ Len(recorded) >= 2

\* the contents of the messages of a list that have the given id
ContentsOf(msgs, id) == {msgs[k].content : k \in {j \in 1..Len(msgs) : msgs[j].id = id}}

\* the last handler invocation of the last read
LastCall == log[Len(log)]

\* C2: right after a read whose last event is an llm_token or vlm_token, the
\* content published for the placeholder, and the placeholder's content in
\* the active list, is the trimmed concatenation of the llm_token tokens the
\* request has received so far.
TokenContentIsTokenConcat ==
  (op.h = "readChunk" /\ log # <<>> /\ LastCall.h \in {"onLlmToken", "onVlmToken"})
    => /\ LastCall.pub
       /\ LastCall.content = Trim(llmTokens)
       /\ ContentsOf(messages, modelMsgId) \subseteq {Trim(llmTokens)}

\* C3: once a done or error event was processed for a request, reading a
\* further chunk of the same stream leaves the placeholder's content as it is.
TerminalIsFinal ==
  [][(terminal # "none" /\ op'.h = "readChunk")
       => ContentsOf(messages', modelMsgId) = ContentsOf(messages, modelMsgId)]_vars

\* C6: reading a frame whose payload is not JSON invokes no handler, leaves
\* the error surface, the messages and both buffers as they are and keeps the
\* stream open; read between two token frames, the two tokens are applied in
\* order as if it was not there.
MalformedFrameSkipped ==
  /\ [][(op'.h = "readChunk" /\ op'.arg = FrameNotJson)
          => /\ log' = <<>>
             /\ error' = error
             /\ messages' = messages
             /\ sessions' = sessions
             /\ llmBuffer' = llmBuffer
             /\ vlmBuffer' = vlmBuffer
             /\ buffer' = buffer
             /\ pending' = pending
             /\ pc' = "read"
             /\ isLoading' = isLoading]_vars
  /\ [][(op'.h = "readChunk" /\ op'.arg = FrameTokensAroundNotJson /\ buffer = "")
          => /\ Len(log') = 2
             /\ log'[1].h = "onLlmToken" /\ log'[1].content = Trim(llmBuffer \o " x")
             /\ log'[2].h = "onLlmToken" /\ log'[2].content = Trim(llmBuffer \o " xy ")
             /\ llmBuffer' = llmBuffer \o " xy "
             /\ error' = error
             /\ pc' = "read"]_vars

\* a frame that is not JSON was read after a token, and the stream is open
MalformedFrameRead ==
  /\ op.h = "readChunk" /\ op.arg = FrameNotJson
  /\ llmTokens = " x" /\ pc = "read"
  /\ ContentsOf(messages, modelMsgId) = {"x"}

\* C8: right after an error event is read, the error surface holds its
\* message and the placeholder's content is "Error: " followed by it; an
\* absent or empty message is replaced by "Stream error" in both.
ErrorEventSurfaced ==
  \A e \in { [frame |-> FrameError, message |-> "GPU busy"],
             [frame |-> FrameErrorBare, message |-> "Stream error"],
             [frame |-> FrameErrorEmpty, message |-> "Stream error"] } :
    (op.h = "readChunk" /\ op.arg = e.frame)
      => /\ error = e.message
         /\ Len(log) = 1 /\ LastCall.h = "onError" /\ LastCall.pub
         /\ LastCall.content = "Error: " \o e.message
         /\ ContentsOf(messages, modelMsgId) \subseteq {"Error: " \o e.message}

\* an error event without message was read after tokens had been published
ErrorEventRead ==
  /\ op.h = "readChunk" /\ op.arg = FrameErrorBare
  /\ llmTokens # ""
  /\ ContentsOf(messages, modelMsgId) = {"Error: Stream error"}



(***************************************************************************)
(* pages/Index.tsx: onSubmit of the configuration form. It reads the       *)
(* response body with its own copy of the frame loop; whatever is thrown   *)
(* inside the loop leaves it and reaches the catch block of onSubmit.      *)
(***************************************************************************)
\* refreshResponse: the two channels, labelled, empty ones filtered out
refreshResponse(vlm, llm) ==
  LET v == IF vlm # "" THEN "Vision Model Analysis:\n" \o Trim(vlm) ELSE ""
      l == IF llm # "" THEN Trim(llm) ELSE ""
  IN  IF v # "" /\ l # "" THEN v \o "\n\n" \o l ELSE v \o l

NotThrown == [thrown |-> FALSE, message |-> ""]
Thrown(message) == [thrown |-> TRUE, message |-> message]

\* the try block around one frame's payload (JSON.parse and the if/else
\* chain); its catch logs and rethrows. engineMessage is the message of the
\* SyntaxError or TypeError the JavaScript engine raises.
indexPayload(st, dataLine, engineMessage) ==
  LET r == JsonParse(StripDataPrefix(dataLine))
      p == r.v
      event == Prop(p, "event")
      state == Prop(p, "state")
  IN  IF ~r.ok \/ p.t = "null" THEN [st EXCEPT !.err = Thrown(engineMessage)]
      ELSE IF StrictEq(event, "status") /\ StrictEq(state, "queued")
      THEN [st EXCEPT !.response = QueuedText]
      ELSE IF StrictEq(event, "status") /\ StrictEq(state, "processing")
      THEN [st EXCEPT !.response = AnalyzingText]
      ELSE IF StrictEq(event, "vlm_token") /\ Truthy(Prop(p, "token"))
      THEN LET vlm == st.vlm \o ToStr(Prop(p, "token")) IN
           [st EXCEPT !.vlm = vlm, !.response = refreshResponse(vlm, st.llm)]
      ELSE IF StrictEq(event, "llm_token") /\ Truthy(Prop(p, "token"))
      THEN LET llm == st.llm \o ToStr(Prop(p, "token")) IN
           [st EXCEPT !.llm = llm, !.response = refreshResponse(st.vlm, llm)]
      ELSE IF StrictEq(event, "done")
      THEN LET vlm == IF Nullish(Prop(p, "vlm_output")) THEN st.vlm
                      ELSE ToStr(Prop(p, "vlm_output"))
               llm == IF Nullish(Prop(p, "llm_report")) THEN st.llm
                      ELSE ToStr(Prop(p, "llm_report"))
           IN  [st EXCEPT !.vlm = vlm, !.llm = llm,
                          !.response = refreshResponse(vlm, llm),
                          !.toast = "success: Response received successfully"]
      ELSE IF StrictEq(event, "error")
      THEN [st EXCEPT !.err = Thrown(IF Truthy(Prop(p, "message"))
                                     THEN ToStr(Prop(p, "message"))
                                     ELSE "Stream error")]
      ELSE st

\* one frame: its lines, the first data line, and the payload's effect
indexFrame(st, chunk, engineMessage) ==
  LET dataLine == FindDataLine(TrimmedLines(chunk)) IN
  IF ~dataLine.found \/ StartsWith(dataLine.line, ":") THEN st
  ELSE indexPayload(st, dataLine.line, engineMessage)

\* the inner while loop, left at once by a throw
RECURSIVE indexDrain(_, _)
indexDrain(st, engineMessage) ==
  LET boundary == SearchBoundary(st.buffer) IN
  IF boundary = -1 \/ st.err.thrown THEN st
  ELSE indexDrain(
         indexFrame([st EXCEPT !.buffer = SliceFrom(st.buffer,
                                  boundary + BoundarySkip(st.buffer, boundary))],
                    Slice(st.buffer, 0, boundary), engineMessage),
         engineMessage)

\* one iteration of the outer loop for a chunk the reader returned
indexReadStep(ix, bytes, engineMessage) ==
  LET d == DecodeStream(ix.pending, bytes) IN
  indexDrain([response |-> ix.response, toast |-> ix.toast, vlm |-> ix.vlmBuffer,
              llm |-> ix.llmBuffer, buffer |-> ix.buffer \o d.text,
              pending |-> d.pending, err |-> NotThrown], engineMessage)


\* frames with an empty and with a null payload
FrameEmptyData == "data:\n\n"
FrameNullData == "data: null\n\n"

\* what reader.read() may return to the form page
IndexChunks ==
  {FrameQueued, FrameLlmX, FrameLlmY, FrameVlm, FrameDone, FrameError,
   FrameNotJson, FrameEmptyData, FrameNullData, FrameTokensAroundNotJson,
   "data: {\"event\":\"llm_to", "ken\",\"token\":\"z\"}\n\n"}

\* messages of the SyntaxError of JSON.parse and of the TypeError of reading a
\* property of null; their text is the engine's
EngineMessages == {"Unexpected token", "Cannot read properties of null"}

\* responses that are not ok
IndexFailures == {[status |-> 502, body |-> "<html>502</html>"]}

pageVars == <<sessions, currentSessionId, messages, input, selectedImage,
              isLoading, error, pc, modelMsgId, vlmBuffer, llmBuffer, buffer,
              pending, now, requests, reads, op, log, llmTokens, terminal,
              steps, stream, pos, recorded, sent>>

\* every handler run of the form page counts as one step of the behaviour
IndexTick(ix) == ix.steps < MaxSteps

IndexRan(ix, h, arg) == [ix EXCEPT !.steps = ix.steps + 1, !.op = Ran(h, arg)]

\* submit of the form (the button is disabled while isLoading), up to the
\* first await
onSubmit ==
  /\ IndexTick(index)
  /\ ~index.isLoading
  /\ index' = [IndexRan(index, "onSubmit", "") EXCEPT
                 !.isLoading = TRUE, !.response = "", !.pc = "fetch",
                 !.buffer = "", !.pending = "", !.vlmBuffer = "",
                 !.llmBuffer = "", !.reads = 0]
  /\ UNCHANGED pageVars

\* the catch and finally blocks of onSubmit
indexFails(ix, message) ==
  [ix EXCEPT !.response = "Error: " \o message,
             !.toast = "error: Failed to get response",
             !.isLoading = FALSE, !.pc = "idle",
             !.buffer = "", !.pending = "", !.vlmBuffer = "", !.llmBuffer = "",
             !.reads = 0]

indexFetchOk ==
  /\ IndexTick(index)
  /\ index.pc = "fetch"
  /\ index' = [IndexRan(index, "other", "") EXCEPT !.pc = "read"]
  /\ UNCHANGED pageVars

indexFetchNotOk(res) ==
  /\ IndexTick(index)
  /\ index.pc = "fetch"
  /\ index' = indexFails(IndexRan(index, "other", ""),
                         "HTTP error! status: " \o ToString(res.status)
                           \o ", message: " \o res.body)
  /\ UNCHANGED pageVars

indexFetchRejects(msg) ==
  /\ IndexTick(index)
  /\ index.pc = "fetch"
  /\ index' = indexFails(IndexRan(index, "other", ""), msg)
  /\ UNCHANGED pageVars

\* reader.read() returns a chunk
indexRead(bytes, engineMessage) ==
  /\ IndexTick(index)
  /\ index.pc = "read"
  /\ index.reads < MaxReads
  /\ \E st \in {indexReadStep(index, bytes, engineMessage)} :
       index' = IF st.err.thrown
                THEN indexFails([IndexRan(index, "indexRead", bytes) EXCEPT
                                   !.toast = st.toast], st.err.message)
                ELSE [IndexRan(index, "indexRead", bytes) EXCEPT
                        !.response = st.response, !.toast = st.toast,
                        !.vlmBuffer = st.vlm, !.llmBuffer = st.llm,
                        !.buffer = st.buffer, !.pending = st.pending,
                        !.reads = index.reads + 1]
  /\ UNCHANGED pageVars

\* reader.read() reports the end of the stream
indexReadDone ==
  /\ IndexTick(index)
  /\ index.pc = "read"
  /\ index' = [IndexRan(index, "other", "") EXCEPT
                 !.isLoading = FALSE, !.pc = "idle", !.buffer = "",
                 !.pending = "", !.vlmBuffer = "", !.llmBuffer = "", !.reads = 0]
  /\ UNCHANGED pageVars

indexReadRejects(msg) ==
  /\ IndexTick(index)
  /\ index.pc = "read"
  /\ index' = indexFails(IndexRan(index, "other", ""), msg)
  /\ UNCHANGED pageVars

NextIndex ==
  \/ onSubmit
  \/ indexFetchOk
  \/ \E res \in IndexFailures : indexFetchNotOk(res)
  \/ \E msg \in NetworkErrors : indexFetchRejects(msg)
  \/ \E bytes \in IndexChunks : \E m \in EngineMessages : indexRead(bytes, m)
  \/ indexReadDone
  \/ \E msg \in NetworkErrors : indexReadRejects(msg)

SpecIndex == Init /\ [][NextIndex]_vars

(***************************************************************************)
(* One whole request on the chat page: the prompt is in the text box, the  *)
(* user submits, and the response body is one fixed stream that the reader *)
(* returns in chunks of several sizes. recorded keeps every handler        *)
(* invocation of the request with what it published.                       *)
(***************************************************************************)
Prompt == "What is a fever?"

ScenarioStream ==
  FrameQueued \o FrameProcessing \o FrameLlmX \o FrameLlmY \o FrameDone

\* sizes of the chunks reader.read() returns; a chunk ends with the body
ChunkSizes == {3, 14, 45, 60, 150, Len(ScenarioStream)}

InitScenario ==
  /\ sessions = <<>>
  /\ currentSessionId = Null
  /\ messages = <<>>
  /\ input = Prompt
  /\ selectedImage = NoImage
  /\ isLoading = FALSE
  /\ error = Null
  /\ pc = "idle"
  /\ modelMsgId = Null
  /\ vlmBuffer = ""
  /\ llmBuffer = ""
  /\ buffer = ""
  /\ pending = ""
  /\ now = 1
  /\ requests = 0
  /\ reads = 0
  /\ op = Ran("other", "")
  /\ log = <<>>
  /\ llmTokens = ""
  /\ terminal = "none"
  /\ steps = 0
  /\ stream = ScenarioStream
  /\ pos = 0
  /\ recorded = <<>>
  /\ sent = <<>>
  /\ index = IndexMounted

\* reader.read() returns the next bytes of the body, at most size of them
scenarioRead(size) ==
  LET n == IF pos + size <= Len(stream) THEN size ELSE Len(stream) - pos IN
  /\ steps < MaxSteps
  /\ steps' = steps + 1
  /\ pc = "read"
  /\ n > 0
  /\ foldChunk(Slice(stream, pos, pos + n))
  /\ pos' = pos + n
  /\ reads' = reads + 1
  /\ recorded' = recorded \o log'
  /\ UNCHANGED <<stream, sent, index>>

\* reader.read() reports the end of the body
scenarioEnd ==
  /\ pos = Len(stream)
  /\ readDone

NextScenario ==
  \/ \E t \in {now, now + 1} : handleSend(t)
  \/ fetchOk
  \/ \E size \in ChunkSizes : scenarioRead(size)
  \/ scenarioEnd

SpecScenario == InitScenario /\ [][NextScenario]_vars

(***************************************************************************)
(* The wire format as the server writes it: every event is one frame       *)
(* "data: <json>" closed by a blank line, with comment frames in between.  *)
(* An event is a record: kind, and the fields a and b it carries (state,   *)
(* token or message in a; vlm_output in a and llm_report in b for done),   *)
(* Absent for a field the event does not have.                             *)
(***************************************************************************)
Absent == "<absent>"
Event(kind, a, b) == [kind |-> kind, a |-> a, b |-> b]

\* a character of a JSON string literal as it is written: the quote, the
\* backslash and the control characters escaped, e-acute as its two bytes
EscapeChar(c) ==
  CASE c = "\"" -> "\\\"" [] c = "\\" -> "\\\\" [] c = "\n" -> "\\n"
    [] c = "\r" -> "\\r" [] c = "\t" -> "\\t"
    [] c = TwoByteChar -> LeadByte \o ContByte
    [] OTHER -> c

Quote(text) ==
  "\"" \o ConcatRange([k \in 1..Len(text) |-> EscapeChar(CharAt(text, k - 1))],
                      1, Len(text)) \o "\""

\* ,"key":"value" for a field that is present
Member(key, value) ==
  IF value = Absent THEN "" ELSE "," \o Quote(key) \o ":" \o Quote(value)

Stringify(e) ==
  "{\"event\":" \o Quote(e.kind)
    \o (CASE e.kind = "status" -> Member("state", e.a)
          [] e.kind \in {"vlm_token", "llm_token"} -> Member("token", e.a)
          [] e.kind = "done" -> Member("vlm_output", e.a) \o Member("llm_report", e.b)
          [] OTHER -> Member("message", e.a))
    \o "}"

EncodeFrame(e) == "data: " \o Stringify(e) \o "\n\n"

\* the events a server sends
WireEvents ==
  {Event("status", "queued", Absent), Event("status", "warming up", Absent),
   Event("vlm_token", "v", Absent), Event("llm_token", " a \"b\"\\\n", Absent),
   Event("llm_token", "caf@ ", Absent), Event("done", Absent, Absent),
   Event("done", "w", Absent), Event("done", Absent, " r\n"),
   Event("error", "GPU busy", Absent), Event("error", Absent, Absent)}

MaxFrames == 3     \* frames, comments included, in one body

\* the body before the server has written anything
InitRoundTrip ==
  /\ sessions = <<>>
  /\ currentSessionId = Null
  /\ messages = <<>>
  /\ input = ""
  /\ selectedImage = NoImage
  /\ isLoading = FALSE
  /\ error = Null
  /\ pc = "write"
  /\ modelMsgId = Null
  /\ vlmBuffer = ""
  /\ llmBuffer = ""
  /\ buffer = ""
  /\ pending = ""
  /\ now = 1
  /\ requests = 0
  /\ reads = 0
  /\ op = Ran("other", "")
  /\ log = <<>>
  /\ llmTokens = ""
  /\ terminal = "none"
  /\ steps = 0
  /\ stream = ""
  /\ pos = 0
  /\ recorded = <<>>
  /\ sent = <<>>
  /\ index = IndexMounted

\* the server writes the frame of one event; reads counts the frames written
writeEvent(e) ==
  /\ pc = "write"
  /\ reads < MaxFrames
  /\ stream' = stream \o EncodeFrame(e)
  /\ sent' = Append(sent, e)
  /\ reads' = reads + 1
  /\ UNCHANGED <<pc, pos, recorded, buffer, pending, chatVarsNoSent>>

\* the server writes a comment frame
writeComment ==
  /\ pc = "write"
  /\ reads < MaxFrames
  /\ stream' = stream \o FrameKeepAlive
  /\ reads' = reads + 1
  /\ UNCHANGED <<pc, pos, recorded, buffer, pending, sent, chatVarsNoSent>>

\* analyzeCaseStream reads the body: one read returns all of it, the next
\* reports the end
readBody ==
  /\ pc = "write"
  /\ \E r \in {ReadStep(pending, buffer, stream)} :
         /\ pending' = r.pending
         /\ buffer' = r.buffer
         /\ recorded' = r.calls
  /\ pos' = Len(stream)
  /\ pc' = "idle"
  /\ UNCHANGED <<stream, reads, sent, chatVarsNoSent>>

NextRoundTrip ==
  \/ \E e \in WireEvents : writeEvent(e)
  \/ writeComment
  \/ readBody

SpecRoundTrip == InitRoundTrip /\ [][NextRoundTrip]_vars

(***************************************************************************)
(* One request from the submit to its end, with a transport that settles:  *)
(* the fetch promise resolves or rejects, and the reader ends the stream   *)
(* or throws. The prompt is in the text box; the submit, the fetch, at     *)
(* most MaxReads chunks and the end take MaxReads + 3 steps, fewer than    *)
(* MaxSteps, so the step bound never holds a request back.                 *)
(***************************************************************************)
LiveChunks ==
  {FrameQueued, FrameLlmX, FrameVlm, FrameDone, FrameDoneVlm, FrameError,
   FrameErrorBare, FrameNotJson}

\* a submit the guard lets through
acceptedSubmit == ~sendBlocked /\ handleSend(now + 1)

\* the promise fetch returned settles
fetchSettles ==
  \/ fetchOk
  \/ \E resp \in PageResponses : fetchNotOk(resp)
  \/ \E msg \in NetworkErrors : fetchRejects(msg)

\* reader.read() reports the end of the stream or rejects
streamEnds ==
  \/ readDone
  \/ \E msg \in NetworkErrors : readRejects(msg)

NextLive ==
  \/ acceptedSubmit
  \/ fetchSettles
  \/ \E bytes \in LiveChunks : readChunk(bytes)
  \/ streamEnds

SpecLive ==
  InitScenario /\ [][NextLive]_vars /\ WF_vars(fetchSettles) /\ WF_vars(streamEnds)

(***************************************************************************)
(* One request whose stream carries frames that hold no event: no data     *)
(* line, nothing or a comment after the marker, an unknown event, a status *)
(* without state, a token event without token text; and frames with more   *)
(* than one data line                                                      *)
(***************************************************************************)
FrameStatusNoState == "data: {\"event\":\"status\"}\n\n"
FrameDataComment == "data: :x\n\n"

QuietFrames ==
  {FrameKeepAlive, "event: status\nid: 1\n\n",
   FrameEmptyData, "data:   \n\n",
   FrameDataComment, "data::\n\n",
   "data: {\"event\":\"ping\"}\n\n", "data: {\"state\":\"queued\"}\n\n",
   FrameStatusNoState, "data: {\"event\":\"status\",\"state\":null}\n\n",
   "data: {\"event\":\"llm_token\"}\n\n",
   "data: {\"event\":\"llm_token\",\"token\":\"\"}\n\n",
   "data: {\"event\":\"vlm_token\"}\n\n",
   "data: {\"event\":\"vlm_token\",\"token\":\"\"}\n\n"}

\* two data lines in one frame
FrameTwoDataLines ==
  "data: {\"event\":\"llm_token\",\"token\":\" x\"}\n"
    \o "data: {\"event\":\"llm_token\",\"token\":\"y \"}\n\n"

\* the first data line is indented and follows an event line
FrameIndentedData ==
  "event: m\n  data: {\"event\":\"vlm_token\",\"token\":\"v\"}\n"
    \o "data: {\"event\":\"error\",\"message\":\"GPU busy\"}\n\n"

QuietChunks ==
  QuietFrames \cup {FrameQueued, FrameLlmX, FrameTwoDataLines, FrameIndentedData}

NextQuiet ==
  \/ fetchOk
  \/ \E bytes \in QuietChunks : readChunk(bytes)
  \/ readDone

SpecQuiet == InitStream /\ [][NextQuiet]_vars

(***************************************************************************)
(* Bodies that end without a final blank line: whole frames followed by    *)
(* text the server did not terminate before the connection closed          *)
(***************************************************************************)
WholeFrames == {"", FrameLlmX, FrameQueued \o FrameVlm}

UnterminatedTails ==
  {"data: {\"event\":\"done\",\"llm_report\":\"r\"}",
   "data: {\"event\":\"error\",\"message\":\"GPU busy\"}\n",
   "data: {\"event\":\"llm_token\",\"token\":\"y\"}\r\n"}

InitTail ==
  /\ stream \in {whole \o tail : whole \in WholeFrames, tail \in UnterminatedTails}
  /\ pos = 0
  /\ recorded = <<>>
  /\ sent = <<>>
  /\ index = IndexMounted
  /\ buffer = ""
  /\ pending = ""
  /\ reads = 0
  /\ pc = "read"
  /\ sessions = <<>>
  /\ currentSessionId = Null
  /\ messages = <<>>
  /\ input = ""
  /\ selectedImage = NoImage
  /\ isLoading = FALSE
  /\ error = Null
  /\ modelMsgId = Null
  /\ vlmBuffer = ""
  /\ llmBuffer = ""
  /\ now = 1
  /\ requests = 0
  /\ op = Ran("other", "")
  /\ log = <<>>
  /\ llmTokens = ""
  /\ terminal = "none"
  /\ steps = 0

SpecTail == InitTail /\ [][NextWire]_vars

(***************************************************************************)
(* Framing: a server that ends each frame with any of the blank-line forms *)
(* the boundary search accepts; sent holds the frame texts written         *)
(***************************************************************************)
\* frame texts: a data line, a comment, an event line before the data line
FrameTexts ==
  {"data: {\"event\":\"llm_token\",\"token\":\"x\"}",
   ": keep-alive",
   "event: m\ndata: {\"event\":\"error\",\"message\":\"GPU busy\"}"}

\* the texts /\r?\n\r?\n/ matches
Boundaries == {"\n\n", "\r\n\r\n", "\r\n\n", "\n\r\n"}

\* the server writes one frame text and the blank line that ends it
writeFrame(text, sep) ==
  /\ pc = "write"
  /\ reads < MaxFrames
  /\ stream' = stream \o text \o sep
  /\ sent' = Append(sent, text)
  /\ reads' = reads + 1
  /\ UNCHANGED <<pc, pos, recorded, buffer, pending, chatVarsNoSent>>

NextFraming ==
  \/ \E text \in FrameTexts : \E sep \in Boundaries : writeFrame(text, sep)
  \/ readBody

SpecFraming == InitRoundTrip /\ [][NextFraming]_vars

\* the values of chunk the inner while loop cuts off a buffer, in order
RECURSIVE CutFrames(_)
CutFrames(text) ==
  LET boundary == SearchBoundary(text) IN
  IF boundary = -1 THEN <<>>
  ELSE <<Slice(text, 0, boundary)>>
       \o CutFrames(SliceFrom(text, boundary + BoundarySkip(text, boundary)))

(***************************************************************************)
(* Submits and the store: the page with texts of 30 and of 31 characters,  *)
(* image-only submits, and requests that end at once, so that submits with *)
(* and without an active session both happen                               *)
(***************************************************************************)
Text30 == "Is a fever of 39 C dangerous??"
Text31 == "Is a fever of 39.5 C dangerous?"

\* texts typed into the text box while the store is explored
TitleTexts == {"", " hi ", " " \o Text30 \o " ", Text31}

NextStore ==
  \/ \E text \in TitleTexts : TypeInput(text)
  \/ handleFileSelect(ImageFile)
  \/ \E t \in {now, now + 1} : handleSend(t)
  \/ \E msg \in NetworkErrors : fetchRejects(msg)
  \/ startNewChat
  \/ \E k \in 1..Len(sessions) : loadSession(sessions[k].id)

SpecStore == Init /\ [][NextStore]_vars

InFlight == pc # "idle"

\* C4 -- a submit made while a request is in flight appends no message, issues
\* no request and leaves the placeholder, the session list and the running
\* request as they were.
SubmitInFlightRejected ==
  [][(op'.h = "handleSend" /\ InFlight)
       => UNCHANGED <<messages, sessions, currentSessionId, requests, modelMsgId,
                      pc, isLoading, vlmBuffer, llmBuffer, buffer, pending>>]_vars

\* a submit with text was made while the stream of the first one was being read
SubmitWhileStreaming ==
  /\ op.h = "handleSend" /\ op.arg = " hi "
  /\ pc = "read" /\ isLoading /\ requests = 1 /\ Len(messages) = 2

\* C5 -- a session switch never changes the active session id or the active
\* message list while a request is in flight.
NoSessionSwitchInFlight ==
  [][(op'.h = "loadSession" /\ InFlight)
       => UNCHANGED <<messages, currentSessionId>>]_vars

\* C9 -- a submit with blank text and no attachment changes neither the
\* message list, the session list, the active session, the error surface nor
\* the in-flight flag, and issues no request.
BlankSubmitIsNoOp ==
  [][(op'.h = "handleSend" /\ Trim(input) = "" /\ selectedImage = NoImage)
       => UNCHANGED <<messages, sessions, currentSessionId, error, isLoading,
                      requests, pc>>]_vars

\* a whitespace-only submit was made on an idle page that shows an error
BlankSubmitMade ==
  /\ op.h = "handleSend" /\ op.arg = " " /\ input = " "
  /\ selectedImage = NoImage /\ ~isLoading /\ pc = "idle" /\ error # Null

Paired(msgs) ==
  /\ Len(msgs) % 2 = 0
  /\ \A k \in 1..Len(msgs) :
       IF k % 2 = 1
       THEN /\ msgs[k].role = USER
            /\ msgs[k + 1].role = MODEL
            /\ msgs[k + 1].id = msgs[k].id \o "-model"
       ELSE msgs[k].role = MODEL

\* C10 -- an accepted submit appends, in one update, a USER message with the
\* trimmed text and then a MODEL placeholder with empty content after the
\* earlier messages, which are kept; the active list never holds half a pair.
SubmitAppendsPair ==
  /\ [](Paired(messages))
  /\ [][requests' = requests + 1
         => /\ Len(messages') = Len(messages) + 2
            /\ SubSeq(messages', 1, Len(messages)) = messages
            /\ messages'[Len(messages) + 1].role = USER
            /\ messages'[Len(messages) + 1].content = Trim(input)
            /\ messages'[Len(messages) + 1].content = Trim(op'.arg)
            /\ messages'[Len(messages) + 2].role = MODEL
            /\ messages'[Len(messages) + 2].content = ""
            /\ messages'[Len(messages) + 2].id = modelMsgId']_vars

\* a second submit was accepted in a conversation that already has a reply
SecondSubmitAccepted ==
  /\ op.h = "handleSend" /\ op.arg = " hi " /\ pc = "fetch" /\ requests = 2
  /\ Len(messages) = 4 /\ messages[3].content = "hi" /\ messages[4].content = ""
  /\ messages[2].content # ""

\* C7 -- on the form page a frame whose payload is unparsable or empty is
\* skipped: the response text stays as it was and the stream is read on.
IndexMalformedFrameSkipped ==
  [][(index'.op.h = "indexRead"
        /\ index'.op.arg \in {FrameNotJson, FrameEmptyData})
       => (index'.response = index.response /\ index'.pc = "read"
             /\ index'.isLoading)]_vars

\* C11 -- while its request is in flight, the MODEL placeholder of the
\* accepted submit carries isStreaming = true.
PlaceholderIsStreaming ==
  \A k \in 1..Len(messages) :
    (InFlight /\ messages[k].id = modelMsgId /\ messages[k].role = MODEL)
      => messages[k].isStreaming = JTrue

\* C12 -- a done event sets each buffer to the value it provides and keeps the
\* streamed value of a buffer it does not mention, then publishes the trimmed
\* llm buffer: with only llm_report the vlm buffer is kept, with only
\* vlm_output the llm text is kept, with neither both are kept.
DoneFoldsBuffers ==
  [][(op'.h = "readChunk" /\ op'.arg \in {FrameDone, FrameDoneVlm, FrameDoneBare})
       => /\ vlmBuffer' = (IF op'.arg = FrameDoneVlm THEN " w " ELSE vlmBuffer)
          /\ llmBuffer' = (IF op'.arg = FrameDone THEN " r " ELSE llmBuffer)
          /\ Len(log') = 1
          /\ log'[1].h = "onDone" /\ log'[1].pub
          /\ log'[1].content = (IF op'.arg = FrameDone THEN "r" ELSE Trim(llmBuffer))
          /\ ContentsOf(messages', modelMsgId) \subseteq {log'[1].content}]_vars

\* a done with only llm_report was folded after vlm and llm tokens had streamed
DoneAfterStreamedTokens ==
  /\ op.h = "readChunk" /\ op.arg = FrameDone
  /\ vlmBuffer = "v" /\ llmBuffer = " r " /\ llmTokens # ""
  /\ ContentsOf(messages, modelMsgId) = {"r"}

ScenarioContents == <<QueuedText, AnalyzingText, "x", "xy", "r">>

\* C13 -- for the stream queued, processing, llm tokens, done: the USER
\* message and the empty MODEL placeholder are in the list before any event
\* is processed, and the placeholder content goes through exactly "", the
\* queued text, the analyzing text, the trimmed token concatenations and the
\* trimmed report, in this order, however the body is cut into chunks.
ScenarioContentSequence ==
  /\ Len(recorded) <= Len(ScenarioContents)
  /\ \A k \in 1..Len(recorded) :
       recorded[k].pub /\ recorded[k].content = ScenarioContents[k]
  /\ requests = 1 =>
       /\ Len(messages) = 2
       /\ messages[1].role = USER /\ messages[1].content = Prompt
       /\ messages[2].role = MODEL /\ messages[2].id = modelMsgId
       /\ messages[2].content =
            (IF recorded = <<>> THEN "" ELSE recorded[Len(recorded)].content)
  /\ (requests = 1 /\ pc = "idle") => Len(recorded) = Len(ScenarioContents)

\* the body was read to its end in chunks that cut frames apart
ScenarioRun ==
  /\ requests = 1 /\ pc = "idle" /\ ~isLoading /\ steps >= 6
  /\ Len(recorded) = 5 /\ messages[2].content = "r"

\* the invocation an event stands for: its handler with the fields it has
InvocationOf(e) ==
  LET val(x) == IF x = Absent THEN Undefined ELSE JStr(x) IN
  CASE e.kind = "status" -> Call("onStatus", val(e.a), Undefined)
    [] e.kind = "vlm_token" -> Call("onVlmToken", val(e.a), Undefined)
    [] e.kind = "llm_token" -> Call("onLlmToken", val(e.a), Undefined)
    [] e.kind = "done" -> Call("onDone", val(e.a), val(e.b))
    [] OTHER -> Call("onError", JStr(IF e.a = Absent THEN "Stream error" ELSE e.a),
                     Undefined)

OnlyContentOf(prev, next, id, content) ==
  /\ Len(next) = Len(prev)
  /\ \A k \in 1..Len(prev) :
       /\ next[k].id = prev[k].id
       /\ next[k].role = prev[k].role
       /\ next[k].timestamp = prev[k].timestamp
       /\ next[k].attachment = prev[k].attachment
       /\ next[k].isStreaming = prev[k].isStreaming
       /\ next[k].content = (IF prev[k].id = id THEN content ELSE prev[k].content)

\* C15 -- a content republish to id X replaces the content of the message
\* with id X and nothing else: position, id, role, timestamp and attachment
\* stay, the other messages and the length stay, and a list without X stays
\* as it is. The republishes are those of a one-frame read and of the catch
\* block.
RepublishChangesOnlyContent ==
  /\ [][(op'.h = "readChunk" /\ Len(log') = 1 /\ log'[1].pub)
         => OnlyContentOf(messages, messages', modelMsgId, log'[1].content)]_vars
  /\ [][op'.h \in {"fetchNotOk", "fetchRejects", "readRejects"}
         => OnlyContentOf(messages, messages', modelMsgId, "Error: " \o error')]_vars

\* a token was published into the second reply of a conversation whose first
\* reply kept its content
RepublishedInLongerList ==
  /\ op.h = "readChunk" /\ Len(messages) = 4 /\ Len(log) = 1
  /\ messages[4].id = modelMsgId /\ messages[4].content = "x"
  /\ messages[2].id # modelMsgId /\ messages[2].content = "Error: Failed to fetch"

\* a fetchNotOk step for this response ends the request errored with msg,
\* without any handler invocation
EndsErroredWith(resp, msg) ==
  (op'.h = "fetchNotOk" /\ op'.arg = resp.body)
    => /\ log' = <<>>
       /\ error' = msg
       /\ OnlyContentOf(messages, messages', modelMsgId, "Error: " \o msg)
       /\ pc' = "idle" /\ ~isLoading'

\* C16 as stated -- a response that is not ok ends the request errored, no
\* handler invoked, with the body's detail field as the message when the body
\* parses and the status text when it does not.
NonOkReportsDetailOrStatusText ==
  [][/\ EndsErroredWith(DetailResponse, "GPU busy")
     /\ EndsErroredWith(EmptyDetailResponse, "")
     /\ EndsErroredWith(HtmlResponse, "Bad Gateway")
     /\ EndsErroredWith(NoTextResponse, "")
     /\ EndsErroredWith(NoBodyResponse, "OK")]_vars

\* C16 amended -- the message is the detail field when the body parses and
\* the field is non-empty, the status text when the body does not parse and
\* the text is non-empty, and "Request failed" in the other cases.
NonOkReportsWithFallback ==
  [][/\ EndsErroredWith(DetailResponse, "GPU busy")
     /\ EndsErroredWith(EmptyDetailResponse, "Request failed")
     /\ EndsErroredWith(NoDetailResponse, "Request failed")
     /\ EndsErroredWith(HtmlResponse, "Bad Gateway")
     /\ EndsErroredWith(NoTextResponse, "Request failed")
     /\ EndsErroredWith(NoBodyResponse, "OK")]_vars

\* a response with an unparsable body and no status text ended the request
NonOkWithoutStatusText ==
  /\ op.h = "fetchNotOk" /\ op.arg = NoTextResponse.body
  /\ error = "Request failed" /\ pc = "idle" /\ ~isLoading
  /\ ContentsOf(messages, modelMsgId) = {"Error: Request failed"}

\* C17 -- a rejected fetch, a response that is not ok and a read that fails
\* all end inside handleSend as the errored outcome: the error surface holds
\* the failure's message, the placeholder content is "Error: " and the
\* message, the in-flight flag is cleared, the list keeps length and order,
\* and the request is over.
FailuresBecomeErrored ==
  [][op'.h \in {"fetchNotOk", "fetchRejects", "readRejects"}
       => /\ error' \notin {Null, ""}
          /\ op'.h \in {"fetchRejects", "readRejects"} => error' = op'.arg
          /\ Len(messages') = Len(messages)
          /\ \A k \in 1..Len(messages) :
               /\ messages'[k].id = messages[k].id
               /\ messages[k].id = modelMsgId
                    => messages'[k].content = "Error: " \o error'
               /\ messages[k].id # modelMsgId => messages'[k] = messages[k]
          /\ ~isLoading' /\ pc' = "idle"]_vars

\* a read failed after the stream had been opened
ReadFailedMidStream ==
  /\ op.h = "readRejects" /\ error = "Failed to fetch" /\ ~isLoading
  /\ pc = "idle" /\ Len(messages) = 2
  /\ messages[2].content = "Error: Failed to fetch" /\ messages[1].content = "hi"

\* C18 -- when the stream ends and no done or error event was processed, the
\* request completes as a success: no error is set, the messages (and with
\* them the placeholder's last published content) stay as they are, and the
\* in-flight flag is cleared.
EndOfStreamIsSuccess ==
  [][(op'.h = "readDone" /\ terminal = "none")
       => /\ error = Null /\ error' = Null
          /\ messages' = messages
          /\ sessions' = sessions
          /\ ~isLoading' /\ pc' = "idle"]_vars

\* the stream ended after a token and without a done event
StreamEndedAfterToken ==
  /\ op.h = "readDone" /\ error = Null /\ ~isLoading /\ pc = "idle"
  /\ steps = 5 /\ ContentsOf(messages, modelMsgId) = {"x"}

\* the handlers that report no error of their own
QuietHandlers ==
  {"startNewChat", "loadSession", "clearImage", "readChunk", "readDone", "other"}

\* C19 as stated -- a message on the error surface stays through new chat,
\* session switch, image selection, image clearing and stream events that
\* are not errors, and only an accepted submit clears it.
ErrorKeptUntilSubmit ==
  /\ [][(error # Null /\ op'.h \in QuietHandlers \cup {"handleFileSelect"})
         => error' = error]_vars
  /\ [][(error # Null /\ error' = Null) => requests' = requests + 1]_vars

\* C19 amended -- the message stays through new chat, session switch, image
\* clearing, typing, rejected submits and stream events that are not errors;
\* an accepted submit and a successful image selection clear it, and only a
\* later failure (of an image selection or of the request) replaces it.
ErrorKeptUntilSubmitOrImage ==
  /\ [][(error # Null /\ op'.h \in QuietHandlers) => error' = error]_vars
  /\ [][(error # Null /\ op'.h = "handleSend" /\ requests' = requests)
         => error' = error]_vars
  /\ [][requests' = requests + 1 => error' = Null]_vars
  /\ [][(op'.h = "handleFileSelect" /\ op'.arg = ImageFile.name)
         => error' = Null]_vars
  /\ [][(error # Null /\ error' = Null)
         => \/ requests' = requests + 1
            \/ op'.h = "handleFileSelect" /\ selectedImage' # NoImage]_vars
  /\ [][(error # Null /\ error' \notin {error, Null})
         => op'.h \in {"handleFileSelect", "fetchNotOk", "fetchRejects",
                       "readRejects"}]_vars

\* the error of a failed request was cleared by picking an image
ErrorClearedByImage ==
  /\ op.h = "handleFileSelect" /\ error = Null /\ selectedImage # NoImage
  /\ requests = 1 /\ pc = "idle" /\ Len(messages) = 2
  /\ messages[2].content = "Error: Failed to fetch"

\* C20 -- startNewChat empties the active list and detaches from the active
\* session without adding, removing or changing a stored session, and no
\* stored session ever has an empty message list.
NewChatKeepsStore ==
  /\ [][op'.h = "startNewChat"
         => /\ messages' = <<>>
            /\ currentSessionId' = Null
            /\ sessions' = sessions]_vars
  /\ [](\A k \in 1..Len(sessions) : sessions[k].messages # <<>>)

\* a new chat was started while a stored conversation was active
NewChatAfterConversation ==
  /\ op.h = "startNewChat" /\ messages = <<>> /\ currentSessionId = Null
  /\ Len(sessions) = 1 /\ Len(sessions[1].messages) = 2

\* the title the store shows for a first utterance
TitleFor(text) ==
  CASE text = "" -> "Image Query"
    [] text = "hi" -> "hi"
    [] text = Text30 -> Text30
    [] text = Text31 -> "Is a fever of 39.5 C dangerous" \o "..."

\* C21 -- an accepted submit puts exactly one new session at the head of the
\* store and makes it active when no session is active, and leaves the number
\* of sessions and the active id as they are otherwise; the new title is the
\* trimmed text up to 30 characters, its first 30 characters and "..." when
\* longer, and "Image Query" when the text is empty.
SubmitCreatesSessionWhenNoneActive ==
  [][requests' = requests + 1
       => IF currentSessionId = Null
          THEN /\ Len(sessions') = Len(sessions) + 1
               /\ currentSessionId' # Null
               /\ sessions'[1].id = currentSessionId'
               /\ sessions'[1].title = TitleFor(Trim(input))
               /\ \A k \in 1..Len(sessions) :
                    /\ sessions'[k + 1].id = sessions[k].id
                    /\ sessions'[k + 1].title = sessions[k].title
          ELSE /\ Len(sessions') = Len(sessions)
               /\ currentSessionId' = currentSessionId
               /\ \A k \in 1..Len(sessions) :
                    /\ sessions'[k].id = sessions[k].id
                    /\ sessions'[k].title = sessions[k].title]_vars

\* an image-only conversation was stored after one with a long first text
LongAndImageTitlesStored ==
  /\ op.h = "handleSend" /\ pc = "fetch" /\ Len(sessions) = 2
  /\ sessions[1].title = "Image Query"
  /\ sessions[2].title = "Is a fever of 39.5 C dangerous..."

IdsDistinct(msgs) ==
  \A i \in 1..Len(msgs) : \A j \in 1..Len(msgs) : i # j => msgs[i].id # msgs[j].id

\* C22 -- the ids in the active list and in every stored session's list are
\* pairwise distinct, and while a request is in flight its placeholder stays
\* at its position, under its id, in every list that holds it.
UniqueIdsStablePlaceholder ==
  /\ [](/\ IdsDistinct(messages)
        /\ \A s \in 1..Len(sessions) : IdsDistinct(sessions[s].messages))
  /\ [][(InFlight /\ requests' = requests)
         => \A s \in 1..Len(sessions) : \A k \in 1..Len(sessions[s].messages) :
              sessions[s].messages[k].id = modelMsgId
                => /\ Len(sessions') = Len(sessions)
                   /\ Len(sessions'[s].messages) = Len(sessions[s].messages)
                   /\ sessions'[s].messages[k].id = modelMsgId
                   /\ sessions'[s].messages[k].role = MODEL]_vars

RECURSIVE CallsOfFrames(_)
CallsOfFrames(frames) ==
  IF frames = <<>> THEN <<>>
  ELSE FrameCalls(Head(frames)) \o CallsOfFrames(Tail(frames))

\* C23 -- the frames cut from a body are, in order, exactly the texts that
\* lie between its boundaries, whichever accepted blank-line form ends each
\* of them, and the invocations made are those of these texts.
FramesAreTextBetweenBoundaries ==
  pc = "idle" => /\ CutFrames(DecodeStream("", stream).text) = sent
                 /\ recorded = CallsOfFrames(sent)

\* C24 -- when the body ends, text in the buffer that no blank line ended
\* gives no invocation, a complete data line included: the step that ends
\* the read makes none, and the invocations of the whole request are those
\* of the frames before that text.
TrailingTextDropped ==
  /\ [][(pc = "read" /\ pc' = "idle") => recorded' = recorded]_vars
  /\ [](pc = "idle"
         => \A whole \in WholeFrames : \A tail \in UnterminatedTails :
              stream = whole \o tail
                => recorded = WholeBodyCalls(whole) /\ buffer = tail)

\* the body ended with a complete done line in the buffer after a token frame
EndedWithDataLineInBuffer ==
  /\ pc = "idle" /\ reads = 2
  /\ buffer = "data: {\"event\":\"done\",\"llm_report\":\"r\"}"
  /\ Len(recorded) = 1 /\ recorded[1].h = "onLlmToken"

\* the texts a status event publishes
StatusPlaceholders == {QueuedText, AnalyzingText}

\* C25 -- the request never goes back from streaming to queued or
\* processing: once token text of the request has been published and no
\* terminal event has come, reading further events does not make the
\* placeholder's content a status placeholder.
NoReturnToStatusPhase ==
  [][(llmTokens # "" /\ terminal = "none" /\ pc = "read" /\ op'.h = "readChunk")
       => ContentsOf(messages', modelMsgId) \cap StatusPlaceholders = {}]_vars

\* C26 -- a frame gives at most one event, the one of its first line that
\* starts with data: once trimmed; a frame with no data line, with nothing
\* or a text beginning with a colon after the marker, with an unknown event,
\* a status without state or a token event without token text invokes no
\* handler and leaves buffers, content, store and error surface as they are.
FramesWithoutEventIgnored ==
  /\ [][(op'.h = "readChunk" /\ op'.arg \in QuietFrames)
          => /\ log' = <<>>
             /\ messages' = messages
             /\ sessions' = sessions
             /\ llmBuffer' = llmBuffer
             /\ vlmBuffer' = vlmBuffer
             /\ error' = error
             /\ isLoading' = isLoading
             /\ pc' = pc]_vars
  /\ [][op'.h = "readChunk" => Len(log') <= 1]_vars
  /\ [][(op'.h = "readChunk" /\ op'.arg = FrameTwoDataLines)
          => /\ Len(log') = 1
             /\ log'[1].h = "onLlmToken" /\ log'[1].a = JStr(" x")
             /\ llmBuffer' = llmBuffer \o " x"]_vars
  /\ [][(op'.h = "readChunk" /\ op'.arg = FrameIndentedData)
          => /\ Len(log') = 1
             /\ log'[1].h = "onVlmToken" /\ log'[1].a = JStr("v")
             /\ error' = error]_vars

\* a status frame without state was read after a token had been published
StatusWithoutStateAfterToken ==
  /\ op.h = "readChunk" /\ op.arg = FrameStatusNoState
  /\ pc = "read" /\ reads = 2 /\ llmBuffer = " x"
  /\ ContentsOf(messages, modelMsgId) = {"x"}

\* the position of the running request's placeholder in a list: the last
\* message with the request's id, 0 when the list does not hold it
PlaceholderAt(msgs, id) ==
  LET hits == {k \in 1..Len(msgs) : msgs[k].id = id}
  IN  IF hits = {} THEN 0 ELSE CHOOSE k \in hits : \A j \in hits : j <= k

\* C27 -- the buffers belong to one request: an accepted submit starts with
\* both empty, what a token event publishes is the trimmed text of this
\* request's buffer, and while the request runs no step that keeps the
\* active list in place changes the content of a MODEL message other than
\* the request's own placeholder.
AccumulatorPerRequest ==
  /\ [][requests' = requests + 1 => llmBuffer' = "" /\ vlmBuffer' = ""]_vars
  /\ [][(op'.h = "readChunk" /\ log' # <<>>
           /\ log'[Len(log')].h \in {"onLlmToken", "onVlmToken"})
          => log'[Len(log')].content = Trim(llmBuffer')]_vars
  /\ [][(InFlight /\ requests' = requests /\ currentSessionId' = currentSessionId
           /\ Len(messages') = Len(messages))
          => \A k \in 1..Len(messages) :
               (messages[k].role = MODEL /\ k # PlaceholderAt(messages, modelMsgId))
                 => messages'[k].content = messages[k].content]_vars

\* the contents the store holds for the messages with the given id
StoredContents(ss, id) ==
  UNION {ContentsOf(ss[s].messages, id) : s \in 1..Len(ss)}

\* C28 -- when a request ends, the stored session that owns its placeholder
\* holds the last content published for it, whatever new-chat and
\* select-session actions came between the stream's events: after an end of
\* stream that follows a read, the content the read published last; after a
\* failure, the error text.
PublishedContentStored ==
  /\ [][(op'.h = "readDone" /\ op.h = "readChunk" /\ log # <<>> /\ LastCall.pub)
          => StoredContents(sessions', modelMsgId) = {LastCall.content}]_vars
  /\ [][(pc # "idle" /\ pc' = "idle" /\ op'.h # "readDone")
          => StoredContents(sessions', modelMsgId) = {"Error: " \o error'}]_vars

\* C29 -- with a transport that settles, every accepted submit leads to a
\* state where the request is over and isLoading is false, whether the
\* stream ended with done, with error, with no terminal event or with a
\* thrown error; and isLoading is true for as long as the request runs.
SubmitEventuallyClearsFlag ==
  /\ [](InFlight => isLoading = TRUE)
  /\ (InFlight ~> (~InFlight /\ isLoading = FALSE))

\* a request ended by the end of the stream after a token, flag cleared
FlagClearedAfterStream ==
  /\ requests = 1 /\ pc = "idle" /\ isLoading = FALSE
  /\ op.h = "readDone" /\ ContentsOf(messages, modelMsgId) = {"x"}

\* C30 -- a vlm_token event adds its token to the vlm buffer only and
\* publishes the trimmed llm buffer: with an empty llm buffer the
\* placeholder's content becomes the empty string, a status placeholder
\* included, and the vlm text is not in the published content.
VlmTokenPublishesLlmBuffer ==
  [][(pc = "read" /\ op'.h = "readChunk" /\ op'.arg = FrameVlm)
       => /\ Len(log') = 1 /\ log'[1].h = "onVlmToken" /\ log'[1].pub
          /\ log'[1].content = Trim(llmBuffer)
          /\ llmBuffer' = llmBuffer
          /\ vlmBuffer' = vlmBuffer \o "v"
          /\ ContentsOf(messages', modelMsgId) \subseteq {Trim(llmBuffer)}
          /\ (llmBuffer = "" /\ ContentsOf(messages, modelMsgId) = {QueuedText}
                => ContentsOf(messages', modelMsgId) = {""})]_vars

\* a vlm token arrived right after the queued status, before any llm token
VlmTokenAfterQueued ==
  /\ pc = "read" /\ op.h = "readChunk" /\ op.arg = FrameVlm /\ reads = 2
  /\ llmBuffer = "" /\ vlmBuffer = "v" /\ error = Null
  /\ ContentsOf(messages, modelMsgId) = {""}
  /\ StoredContents(sessions, modelMsgId) = {""}
====
